---- MODULE Spec2Model ----
(***************************************************************************)
(* Thread profiling of libvips (libvips/iofuncs/gate.c).                   *)
(*                                                                         *)
(* Every thread may attach a VipsThreadProfile to its thread-private slot, *)
(* record gate start/stop times into chains of fixed-size blocks, and on   *)
(* thread exit the GPrivate destructor dumps the profile to the shared     *)
(* stream vips__thread_fp under vips__global_lock.                         *)
(***************************************************************************)
EXTENDS Integers, Sequences, FiniteSets, TLC

\* ---------------------------------------------------------------- bounds
\* Block capacity.  The source sets VIPS_GATE_SIZE to 1000; the model keeps
\* the same code paths with a small capacity, so that chains of several
\* blocks are reached within MaxClock timestamps.
VIPS_GATE_SIZE == 1

\* Largest value the clock reaches: every call of vips_get_time is one tick
\* later than the call before, so this is also the most timestamps stored
\* in a run.
MaxClock == 2

\* Ticks in a second: tv_usec of a GTimeVal counts from 0 to one less than
\* this and starts again (1000000 in the program).  Small, so that a second
\* ends within MaxClock ticks.
TicksPerSecond == 2

Threads == {"t1", "t2"}
GateNames == {"a", "b"}
ThreadNames == {"worker"}

\* ------------------------------------------------------------- constants
NULL == [null |-> TRUE]
FILE == [file |-> "vips-profile.txt"]
PRIVATE == [key |-> "private"]
UNLOCKED == "unlocked"

VARIABLES
    HAVE_MONOTONIC_TIME,      \* the build: TRUE when the macro is defined
    vips__thread_profile,     \* the enable flag
    vips_thread_profile_key,  \* NULL until vips__thread_profile_init
    vips__thread_fp,          \* NULL or the FILE
    stream,                   \* state of the FILE object: none, open, closed
    out,                      \* what has been written to the file, one
                              \* entry per fprintf
    vips__global_lock,        \* owner of the mutex, or UNLOCKED
    once,                     \* GOnce status of vips__thread_profile_attach
    private,                  \* per thread value of the GPrivate
    pc,                       \* per thread position
    buf,                      \* per thread: fprintf calls still to make in
                              \* the current callback of the dump
    todo,                     \* per thread: gates g_hash_table_foreach has
                              \* not visited yet
    now,                      \* time since the process started, in ticks
                              \* of the clock (microseconds)
    hist,                     \* per thread, gate, direction: the values
                              \* vips_get_time returned to that thread
    proc,                     \* running, exit (vips_error_exit), segv, abort
    stat                      \* counters of what has happened

vars == <<HAVE_MONOTONIC_TIME, vips__thread_profile,
          vips_thread_profile_key, vips__thread_fp, stream, out,
          vips__global_lock, once, private, pc, buf, todo, now, hist, proc,
          stat>>

\* ------------------------------------------------------------ data model
\* g_new0( VipsThreadGateBlock, 1 ): everything zero
ZeroTime == [k \in 0..(VIPS_GATE_SIZE - 1) |-> 0]

VipsThreadGateBlock_new0 == [prev |-> NULL, time |-> ZeroTime, i |-> 0]

vips_thread_gate_new(gate_name) ==
    [name |-> gate_name,
     start |-> VipsThreadGateBlock_new0,
     stop |-> VipsThreadGateBlock_new0]

\* vips_thread_gate_block_add that does not set block->prev
block_add_unlinked(block) ==
    [prev |-> NULL, time |-> ZeroTime, i |-> 0]

vips_thread_gate_block_add(block) ==
    [prev |-> block, time |-> ZeroTime, i |-> 0]

\* The append with the test of the fill count one too late:
\* if( chain->i > VIPS_GATE_SIZE )
BlockAppend_off_by_one(block, time) ==
    LET cur == IF block.i > VIPS_GATE_SIZE
               THEN vips_thread_gate_block_add(block)
               ELSE block
    IN  [cur EXCEPT !.time = [k \in 0..(VIPS_GATE_SIZE - 1) |->
                                 IF k = cur.i THEN time ELSE cur.time[k]],
                    !.i = cur.i + 1]

\* if( chain->i >= VIPS_GATE_SIZE ) vips_thread_gate_block_add( &chain );
\* chain->time[chain->i++] = time;
BlockAppend(block, time) ==
    LET cur == IF block.i >= VIPS_GATE_SIZE
               THEN vips_thread_gate_block_add(block)
               ELSE block
    IN  \* a store at index >= VIPS_GATE_SIZE would land outside time[]
        [cur EXCEPT !.time = [k \in 0..(VIPS_GATE_SIZE - 1) |->
                                 IF k = cur.i THEN time ELSE cur.time[k]],
                    !.i = cur.i + 1]

\* ------------------------------------------------------- serialization
\* One fprintf call: what it prints.  k is the kind of line or field.
Tok(k, s, n) == [k |-> k, s |-> s, n |-> n]

RECURSIVE block_save_oldest_first(_)
\* vips_thread_gate_block_save walking the chain and each block from the
\* oldest entry: block->prev first, then the loop upwards from 0
block_save_oldest_first(block) ==
    (IF block.prev # NULL
     THEN block_save_oldest_first(block.prev)
     ELSE <<>>)
    \o [j \in 1..block.i |-> Tok("time", "", block.time[j - 1])]
    \o <<Tok("nl", "", 0)>>

RECURSIVE vips_thread_gate_block_save(_)
\* for( i = block->i - 1; i >= 0; i-- ) fprintf( "%d ", block->time[i] );
\* fprintf( "\n" ); if( block->prev ) ...block_save( block->prev )
vips_thread_gate_block_save(block) ==
    [j \in 1..block.i |-> Tok("time", "", block.time[block.i - j])]
    \o <<Tok("nl", "", 0)>>
    \o (IF block.prev # NULL
        THEN vips_thread_gate_block_save(block.prev)
        ELSE <<>>)

\* vips_thread_profile_save_gate that saves the start chain under "stop:"
\* as well
save_gate_start_twice(gate) ==
    <<Tok("gate", gate.name, 0), Tok("start", "", 0)>>
    \o vips_thread_gate_block_save(gate.start)
    \o <<Tok("stop", "", 0)>>
    \o vips_thread_gate_block_save(gate.start)

\* fprintf "gate: %s", "start:", the start chain, "stop:", the stop chain
vips_thread_profile_save_gate(gate) ==
    <<Tok("gate", gate.name, 0), Tok("start", "", 0)>>
    \o vips_thread_gate_block_save(gate.start)
    \o <<Tok("stop", "", 0)>>
    \o vips_thread_gate_block_save(gate.stop)

\* ------------------------------------------------------------- helpers
Running == proc = "running"

NoGates == [g \in {} |-> NULL]

\* g_hash_table_insert( profile->gates, gate_name, gate )
g_hash_table_insert(gates, gate_name, gate) ==
    [h \in (DOMAIN gates) \cup {gate_name} |->
        IF h = gate_name THEN gate ELSE gates[h]]

\* vips_thread_profile_get over one slot shared by all threads: the
\* profile of some attached thread
profile_get_shared(t) ==
    LET attached == {u \in Threads : private[u] # NULL}
    IN  IF attached = {} THEN NULL
        ELSE private[CHOOSE u \in attached : TRUE]

\* g_private_get( vips_thread_profile_key ), once the key exists
vips_thread_profile_get(t) == private[t]

\* g_mutex_lock that does not wait
g_mutex_lock_nowait(t) ==
    vips__global_lock' = t

\* g_mutex_lock( vips__global_lock ): waits until the mutex is free
g_mutex_lock(t) ==
    /\ vips__global_lock = UNLOCKED
    /\ vips__global_lock' = t

g_mutex_unlock(t) ==
    vips__global_lock' = UNLOCKED

\* ------------------------------------------------------------------ Init
\* The state of the program before any call, whatever the build
Start ==
    /\ vips__thread_profile \in BOOLEAN
    /\ vips_thread_profile_key = NULL
    /\ vips__thread_fp = NULL
    /\ stream = "none"
    /\ out = <<>>
    /\ vips__global_lock = UNLOCKED
    /\ once = "NOTCALLED"
    /\ private = [t \in Threads |-> NULL]
    /\ pc = [t \in Threads |-> "run"]
    /\ buf = [t \in Threads |-> <<>>]
    /\ todo = [t \in Threads |-> {}]
    /\ now = 0
    /\ hist = [t \in Threads |-> <<>>]
    /\ proc = "running"
    /\ stat = [init |-> 0, open |-> 0, fclose |-> 0,
               fatal |-> 0, closedwrite |-> FALSE]

\* The build that defines HAVE_MONOTONIC_TIME (g_get_monotonic_time exists
\* from GLib 2.28 on)
Init ==
    /\ HAVE_MONOTONIC_TIME = TRUE
    /\ Start

\* Either build
InitAnyBuild ==
    /\ HAVE_MONOTONIC_TIME \in BOOLEAN
    /\ Start

\* ---------------------------------------------------------------- attach
\* The body of attach with the assertion compiled out: a new profile takes
\* the place of whatever the thread had
attach_body_no_assert(t) ==
    /\ \E thread_name \in ThreadNames :
         private' = [private EXCEPT ![t] =
                        [name |-> thread_name, gates |-> NoGates]]
    /\ pc' = [pc EXCEPT ![t] = "run"]
    /\ UNCHANGED proc

\* vips__thread_profile_attach(), after g_once: the assertion, the new
\* profile with its empty hash table, g_private_set.  All of it is local
\* to the thread.
vips__thread_profile_attach_body(t) ==
    IF private[t] # NULL
    THEN \* g_assert( !g_private_get( vips_thread_profile_key ) )
         /\ proc' = "abort"
         /\ UNCHANGED <<private, pc>>
    ELSE /\ \E thread_name \in ThreadNames :
              private' = [private EXCEPT ![t] =
                             [name |-> thread_name, gates |-> NoGates]]
         /\ pc' = [pc EXCEPT ![t] = "run"]
         /\ UNCHANGED proc

\* A test of a plain flag in place of g_once: every caller that finds the
\* initialization not finished runs it
g_once_racy(t) ==
    \/ /\ once # "READY"
       /\ once' = "PROGRESS"
       /\ pc' = [pc EXCEPT ![t] = "init"]
       /\ UNCHANGED <<private, proc>>
    \/ /\ once = "READY"
       /\ once' = once
       /\ vips__thread_profile_attach_body(t)

\* g_once( &once, vips__thread_profile_init, NULL ): the first caller runs
\* the function, a caller arriving while it runs waits, a later caller
\* passes and goes on with the body of attach.
g_once(t) ==
    \/ /\ once = "NOTCALLED"
       /\ once' = "PROGRESS"
       /\ pc' = [pc EXCEPT ![t] = "init"]
       /\ UNCHANGED <<private, proc>>
    \/ /\ once = "READY"
       /\ once' = once
       /\ vips__thread_profile_attach_body(t)

\* vips__thread_profile_attach( thread_name )
vips__thread_profile_attach(t) ==
    /\ Running
    /\ pc[t] = "run"
    /\ g_once(t)
    /\ UNCHANGED <<HAVE_MONOTONIC_TIME,
                   vips__thread_profile, vips_thread_profile_key,
                   vips__thread_fp, stream, out, vips__global_lock, buf,
                   todo, now, hist, stat>>

\* vips__thread_profile_init that goes on when the stream cannot be opened
init_no_exit(t, opened) ==
    /\ vips_thread_profile_key' = PRIVATE
    /\ vips__thread_fp' = IF vips__thread_profile THEN opened
                          ELSE vips__thread_fp
    /\ stream' = IF vips__thread_profile /\ opened # NULL THEN "open"
                 ELSE stream
    /\ out' = <<>>
    /\ stat' = [stat EXCEPT !.init = @ + 1,
                            !.open = IF vips__thread_profile
                                        /\ opened # NULL
                                     THEN @ + 1 ELSE @]
    /\ once' = "READY"
    /\ pc' = [pc EXCEPT ![t] = "attach"]
    /\ UNCHANGED proc

\* vips__thread_profile_init that opens the stream whatever the flag says
init_ignores_flag(t, opened) ==
    /\ vips_thread_profile_key' = PRIVATE
    /\ IF opened = NULL
       THEN /\ proc' = "exit"
            /\ stat' = [stat EXCEPT !.init = @ + 1, !.fatal = @ + 1]
            /\ UNCHANGED <<vips__thread_fp, stream, out, once, pc>>
       ELSE /\ vips__thread_fp' = opened
            /\ stream' = "open"
            /\ out' = <<>>
            /\ stat' = [stat EXCEPT !.init = @ + 1, !.open = @ + 1]
            /\ once' = "READY"
            /\ pc' = [pc EXCEPT ![t] = "attach"]
            /\ UNCHANGED proc

\* vips__thread_profile_init(), run by the thread g_once chose, and the
\* return to g_once.  opened is what vips__file_open_write returned.  No
\* other thread reads the key or the stream between the two stores in a
\* way that tells them apart, so they are one step.
vips__thread_profile_init(t, opened) ==
    /\ vips_thread_profile_key' = PRIVATE
    /\ IF vips__thread_profile
       THEN IF opened = NULL
            THEN \* vips_error_exit( "unable to create profile log" )
                 /\ proc' = "exit"
                 /\ stat' = [stat EXCEPT !.init = @ + 1, !.fatal = @ + 1]
                 /\ UNCHANGED <<vips__thread_fp, stream, out, once, pc>>
            ELSE /\ vips__thread_fp' = opened
                 /\ stream' = "open"
                 /\ out' = <<>>
                 /\ stat' = [stat EXCEPT !.init = @ + 1, !.open = @ + 1]
                 /\ once' = "READY"
                 /\ pc' = [pc EXCEPT ![t] = "attach"]
                 /\ UNCHANGED proc
       ELSE /\ once' = "READY"
            /\ stat' = [stat EXCEPT !.init = @ + 1]
            /\ pc' = [pc EXCEPT ![t] = "attach"]
            /\ UNCHANGED <<vips__thread_fp, stream, out, proc>>

ProfileInit(t) ==
    /\ Running
    /\ pc[t] = "init"
    /\ \E opened \in {FILE, NULL} : vips__thread_profile_init(t, opened)
    /\ UNCHANGED <<HAVE_MONOTONIC_TIME,
                   vips__thread_profile, vips__global_lock, private, buf,
                   todo, now, hist>>

\* The thread that ran the initialization goes on with the body of attach
AttachProfile(t) ==
    /\ Running
    /\ pc[t] = "attach"
    /\ vips__thread_profile_attach_body(t)
    /\ UNCHANGED <<HAVE_MONOTONIC_TIME,
                   vips__thread_profile, vips_thread_profile_key,
                   vips__thread_fp, stream, out, vips__global_lock, once,
                   buf, todo, now, hist, stat>>

\* ----------------------------------------------------------------- gates
\* The time at a call of vips_get_time: one tick after the call before
Tick == now + 1

\* g_get_monotonic_time(): microseconds since some fixed point
g_get_monotonic_time == Tick

\* g_get_current_time( &time ): the time of day as seconds and microseconds
\* within the second
g_get_current_time ==
    [tv_sec |-> Tick \div TicksPerSecond, tv_usec |-> Tick % TicksPerSecond]

\* vips_get_time(): g_get_monotonic_time() with HAVE_MONOTONIC_TIME, else
\* (gint64) time.tv_usec of g_get_current_time
vips_get_time ==
    IF HAVE_MONOTONIC_TIME
    THEN g_get_monotonic_time
    ELSE g_get_current_time.tv_usec

\* The body of a gate call whose lookup never finds the name: every call
\* makes a new gate and inserts it under the name
GateRecord_lookup_misses(profile, gate_name, dir, time) ==
    LET gates == g_hash_table_insert(profile.gates, gate_name,
                                     vips_thread_gate_new(gate_name))
        gate == gates[gate_name]
        g2 == IF dir = "start"
              THEN [gate EXCEPT !.start = BlockAppend(gate.start, time)]
              ELSE [gate EXCEPT !.stop = BlockAppend(gate.stop, time)]
    IN  [profile EXCEPT !.gates = [gates EXCEPT ![gate_name] = g2]]

\* The body of vips__thread_gate_start / vips__thread_gate_stop for an
\* attached thread; dir is "start" or "stop".
GateRecord(profile, gate_name, dir, time) ==
    LET gates == IF gate_name \in DOMAIN profile.gates
                 THEN profile.gates
                 ELSE g_hash_table_insert(profile.gates, gate_name,
                                          vips_thread_gate_new(gate_name))
        gate == gates[gate_name]
        g2 == IF dir = "start"
              THEN [gate EXCEPT !.start = BlockAppend(gate.start, time)]
              ELSE [gate EXCEPT !.stop = BlockAppend(gate.stop, time)]
    IN  [profile EXCEPT !.gates = [gates EXCEPT ![gate_name] = g2]]

Gate(t, gate_name, dir) ==
    /\ Running
    /\ pc[t] = "run"
    /\ IF vips_thread_profile_key = NULL
       THEN \* g_private_get( NULL ): not defined by GLib.  It returns NULL
            \* or the process takes a fault, by GLib version.
            \/ UNCHANGED vars
            \/ /\ proc' = "segv"
               /\ UNCHANGED <<HAVE_MONOTONIC_TIME,
                              vips__thread_profile, vips_thread_profile_key,
                              vips__thread_fp, stream, out,
                              vips__global_lock, once, private, pc, buf,
                              todo, now, hist, stat>>
       ELSE IF vips_thread_profile_get(t) = NULL
            THEN UNCHANGED vars
            ELSE /\ Tick <= MaxClock
                 /\ LET time == vips_get_time
                    IN  /\ now' = Tick
                        /\ private' = [private EXCEPT ![t] =
                              GateRecord(vips_thread_profile_get(t),
                                         gate_name, dir, time)]
                        /\ hist' = [hist EXCEPT ![t] =
                              Append(@, [gate |-> gate_name, dir |-> dir,
                                         time |-> time])]
                 /\ UNCHANGED <<HAVE_MONOTONIC_TIME,
                                vips__thread_profile,
                                vips_thread_profile_key, vips__thread_fp,
                                stream, out, vips__global_lock, once, pc,
                                buf, todo, proc, stat>>

vips__thread_gate_start(t, gate_name) == Gate(t, gate_name, "start")

vips__thread_gate_stop(t, gate_name) == Gate(t, gate_name, "stop")

\* -------------------------------------------------------------- teardown
\* The thread ends.  GLib runs the destructor of the GPrivate,
\* vips_thread_profile_free, when the thread's value is not NULL.
\* vips_thread_profile_free(): if( vips__thread_fp ), read with no lock
\* held.  The stream the test saw is the argument of the save.
vips_thread_profile_free_test(t) ==
    IF vips__thread_fp # NULL THEN "save_lock" ELSE "free_gates"

ThreadExit(t) ==
    /\ Running
    /\ pc[t] = "run"
    /\ pc' = [pc EXCEPT ![t] = IF private[t] # NULL
                               THEN vips_thread_profile_free_test(t)
                               ELSE "exited"]
    /\ UNCHANGED <<HAVE_MONOTONIC_TIME,
                   vips__thread_profile, vips_thread_profile_key,
                   vips__thread_fp, stream, out, vips__global_lock, once,
                   private, buf, todo, now, hist, proc, stat>>

\* vips_thread_profile_save(): g_mutex_lock.  What follows is the fprintf
\* of the header, then g_hash_table_foreach over the gates.
SaveLock(t) ==
    /\ Running
    /\ pc[t] = "save_lock"
    /\ g_mutex_lock(t)
    /\ pc' = [pc EXCEPT ![t] = "save"]
    /\ buf' = [buf EXCEPT ![t] = <<Tok("thread", private[t].name, 0)>>]
    /\ todo' = [todo EXCEPT ![t] = DOMAIN private[t].gates]
    /\ UNCHANGED <<HAVE_MONOTONIC_TIME,
                   vips__thread_profile, vips_thread_profile_key,
                   vips__thread_fp, stream, out, once, private, now, hist,
                   proc, stat>>

\* fprintf( fp, ... ) by thread t.  The stream is open, or it has been
\* closed by fclose: a write to a closed FILE is not defined, the output is
\* lost or the process takes a fault.
fprintf(t, tok) ==
    IF stream = "open"
    THEN /\ out' = Append(out, [th |-> t, k |-> tok.k, s |-> tok.s,
                                n |-> tok.n])
         /\ UNCHANGED <<proc, stat>>
    ELSE /\ out' = out
         /\ stat' = [stat EXCEPT !.closedwrite = TRUE]
         /\ \/ proc' = proc
            \/ proc' = "segv"

\* The next fprintf of the header or of the callback in progress
SaveWrite(t) ==
    /\ Running
    /\ pc[t] = "save"
    /\ buf[t] # <<>>
    /\ fprintf(t, Head(buf[t]))
    /\ buf' = [buf EXCEPT ![t] = Tail(@)]
    /\ UNCHANGED <<HAVE_MONOTONIC_TIME,
                   vips__thread_profile, vips_thread_profile_key,
                   vips__thread_fp, stream, vips__global_lock, once,
                   private, pc, todo, now, hist>>

\* g_hash_table_foreach() calls vips_thread_profile_save_gate for the next
\* gate, in an order the hash table chooses; the callback's first fprintf.
SaveGate(t) ==
    /\ Running
    /\ pc[t] = "save"
    /\ buf[t] = <<>>
    /\ \E gate_name \in todo[t] :
         LET calls == vips_thread_profile_save_gate(
                          private[t].gates[gate_name])
         IN  /\ fprintf(t, Head(calls))
             /\ buf' = [buf EXCEPT ![t] = Tail(calls)]
             /\ todo' = [todo EXCEPT ![t] = @ \ {gate_name}]
    /\ UNCHANGED <<HAVE_MONOTONIC_TIME,
                   vips__thread_profile, vips_thread_profile_key,
                   vips__thread_fp, stream, vips__global_lock, once,
                   private, pc, now, hist>>

\* The end of a teardown that saved and then returns without the two frees
SaveUnlock_no_free(t) ==
    /\ Running
    /\ pc[t] = "save"
    /\ buf[t] = <<>>
    /\ todo[t] = {}
    /\ g_mutex_unlock(t)
    /\ pc' = [pc EXCEPT ![t] = "exited"]
    /\ UNCHANGED <<HAVE_MONOTONIC_TIME,
                   vips__thread_profile, vips_thread_profile_key,
                   vips__thread_fp, stream, out, once, private, buf, todo,
                   now, hist, proc, stat>>

\* vips_thread_profile_save(): g_mutex_unlock
SaveUnlock(t) ==
    /\ Running
    /\ pc[t] = "save"
    /\ buf[t] = <<>>
    /\ todo[t] = {}
    /\ g_mutex_unlock(t)
    /\ pc' = [pc EXCEPT ![t] = "free_gates"]
    /\ UNCHANGED <<HAVE_MONOTONIC_TIME,
                   vips__thread_profile, vips_thread_profile_key,
                   vips__thread_fp, stream, out, once, private, buf, todo,
                   now, hist, proc, stat>>

\* VIPS_FREEF( g_hash_table_destroy, profile->gates ); VIPS_FREE( profile )
\* vips_thread_gate_free frees every gate and both of its chains.
FreeGates(t) ==
    /\ Running
    /\ pc[t] = "free_gates"
    /\ private' = [private EXCEPT ![t] = NULL]
    /\ pc' = [pc EXCEPT ![t] = "exited"]
    /\ UNCHANGED <<HAVE_MONOTONIC_TIME,
                   vips__thread_profile, vips_thread_profile_key,
                   vips__thread_fp, stream, out, vips__global_lock, once,
                   buf, todo, now, hist, proc, stat>>

\* ------------------------------------------------------------------ stop
\* vips__thread_profile_stop(): if( vips__thread_profile ) and the test of
\* VIPS_FREEF, if( vips__thread_fp )
StopTest(t) ==
    /\ Running
    /\ pc[t] = "run"
    /\ pc' = [pc EXCEPT ![t] =
                 IF vips__thread_profile /\ vips__thread_fp # NULL
                 THEN "stop_fclose" ELSE "run"]
    /\ UNCHANGED <<HAVE_MONOTONIC_TIME,
                   vips__thread_profile, vips_thread_profile_key,
                   vips__thread_fp, stream, out, vips__global_lock, once,
                   private, buf, todo, now, hist, proc, stat>>

\* VIPS_FREEF: (void) fclose( vips__thread_fp ).  fclose of NULL or of a
\* stream closed before is not defined: it returns or the process takes a
\* fault.
StopClose(t) ==
    /\ Running
    /\ pc[t] = "stop_fclose"
    /\ pc' = [pc EXCEPT ![t] = "stop_null"]
    /\ IF vips__thread_fp # NULL /\ stream = "open"
       THEN /\ stream' = "closed"
            /\ stat' = [stat EXCEPT !.fclose = @ + 1]
            /\ UNCHANGED proc
       ELSE /\ stream' = stream
            /\ stat' = [stat EXCEPT !.fclose = @ + 1]
            /\ \/ proc' = proc
               \/ proc' = "segv"
    /\ UNCHANGED <<HAVE_MONOTONIC_TIME,
                   vips__thread_profile, vips_thread_profile_key,
                   vips__thread_fp, out, vips__global_lock, once, private,
                   buf, todo, now, hist>>

\* VIPS_FREEF: vips__thread_fp = 0
StopNull(t) ==
    /\ Running
    /\ pc[t] = "stop_null"
    /\ vips__thread_fp' = NULL
    /\ pc' = [pc EXCEPT ![t] = "run"]
    /\ UNCHANGED <<HAVE_MONOTONIC_TIME,
                   vips__thread_profile, vips_thread_profile_key, stream,
                   out, vips__global_lock, once, private, buf, todo, now,
                   hist, proc, stat>>

\* ------------------------------------------------------------------ Next
Next ==
    \E t \in Threads :
        \/ vips__thread_profile_attach(t)
        \/ ProfileInit(t)
        \/ AttachProfile(t)
        \/ \E gate_name \in GateNames : vips__thread_gate_start(t, gate_name)
        \/ \E gate_name \in GateNames : vips__thread_gate_stop(t, gate_name)
        \/ ThreadExit(t)
        \/ SaveLock(t)
        \/ SaveWrite(t)
        \/ SaveGate(t)
        \/ SaveUnlock(t)
        \/ FreeGates(t)
        \/ StopTest(t)
        \/ StopClose(t)
        \/ StopNull(t)

Spec == Init /\ [][Next]_vars

\* The same program in either build
SpecAnyBuild == InitAnyBuild /\ [][Next]_vars

\* Every thread is scheduled: a thread inside vips_thread_profile_free or
\* inside vips__thread_profile_stop goes on to its next statement when it
\* can.  g_mutex_lock waits for the mutex; the mutex is taken at most once
\* by each thread, so a waiting thread finds it free from some point on.
Fairness ==
    \A t \in Threads :
        /\ WF_vars(SaveLock(t))
        /\ WF_vars(SaveWrite(t))
        /\ WF_vars(SaveGate(t))
        /\ WF_vars(SaveUnlock(t))
        /\ WF_vars(FreeGates(t))
        /\ WF_vars(StopClose(t))
        /\ WF_vars(StopNull(t))

FairSpec == Init /\ [][Next]_vars /\ Fairness

\* ----------------------------------------------------- reading the state
\* The entries of the stream that thread t wrote, in order
ThreadOut(t) == SelectSeq(out, LAMBDA e : e.th = t)

Reverse(q) == [j \in 1..Len(q) |-> q[Len(q) + 1 - j]]

\* The timestamps among entries from..to of q, in order
TimesIn(q, from, to) ==
    LET part == SubSeq(q, from, to)
        only == SelectSeq(part, LAMBDA e : e.k = "time")
    IN  [j \in 1..Len(only) |-> only[j].n]

\* The values vips_get_time returned to t for gate_name in direction dir,
\* oldest first
Recorded(t, gate_name, dir) ==
    LET only == SelectSeq(hist[t],
                    LAMBDA e : e.gate = gate_name /\ e.dir = dir)
    IN  [j \in 1..Len(only) |-> only[j].time]

Touched(t) == {hist[t][j].gate : j \in 1..Len(hist[t])}

RECURSIVE Blocks(_)
\* Number of blocks of a chain
Blocks(block) == IF block.prev = NULL THEN 1 ELSE 1 + Blocks(block.prev)

Chain(gate, dir) == IF dir = "start" THEN gate.start ELSE gate.stop

Dirs == {"start", "stop"}

\* ---------------------------------------------------------------- claims
\* C1: the stream is a concatenation of per-thread dumps.  The entries a
\* thread wrote are contiguous, they begin with that thread's "thread:"
\* header, and no other header of that thread follows: between a thread's
\* header and its last entry no other thread's entry appears.
C1_DumpsDoNotInterleave ==
    /\ \A i \in 1..Len(out) : \A k \in i..Len(out) :
          out[i].th = out[k].th =>
              \A j \in i..k : out[j].th = out[i].th
    /\ \A i \in 1..Len(out) :
          (out[i].k = "thread") <=> (i = 1 \/ out[i - 1].th # out[i].th)

\* Two threads have torn down and each has dumped a gate section.
C1_Witness ==
    \E a \in Threads : \E b \in Threads \ {a} :
        /\ pc[a] = "exited"
        /\ pc[b] = "exited"
        /\ \E i \in 1..Len(out) : out[i].th = a /\ out[i].k = "gate"
        /\ \E i \in 1..Len(out) : out[i].th = b /\ out[i].k = "gate"

Positions(q, k) == {i \in 1..Len(q) : q[i].k = k}

\* The last position of the gate section that begins at position i of q
SectionEnd(q, i) ==
    LET later == {j \in Positions(q, "gate") : j > i}
    IN  IF later = {} THEN Len(q)
        ELSE (CHOOSE j \in later : \A h \in later : j <= h) - 1

\* C3: a thread that attached and recorded gates and has finished its dump
\* while the stream is open has written exactly one "thread:" header, then
\* exactly one "gate:" section for each gate name it touched; each section
\* holds one "start:" followed by the thread's start times of that gate
\* and one "stop:" followed by its stop times of that gate.
C3_TeardownDump ==
    \A t \in Threads :
        (pc[t] \in {"free_gates", "exited"} /\ hist[t] # <<>>
            /\ stream = "open")
        => LET o == ThreadOut(t)
               G == Positions(o, "gate")
           IN  /\ Positions(o, "thread") = {1}
               /\ 2 \in G
               /\ {o[i].s : i \in G} = Touched(t)
               /\ Cardinality(G) = Cardinality(Touched(t))
               /\ \A i \in G :
                     LET sec == SubSeq(o, i, SectionEnd(o, i))
                         stops == Positions(sec, "stop")
                     IN  /\ Positions(sec, "start") = {2}
                         /\ Cardinality(stops) = 1
                         /\ \A p \in stops :
                               /\ TimesIn(sec, 2, p) =
                                    Reverse(Recorded(t, sec[1].s, "start"))
                               /\ TimesIn(sec, p, Len(sec)) =
                                    Reverse(Recorded(t, sec[1].s, "stop"))

\* A thread has torn down with the stream open after one start and one
\* stop of a gate, and its dump is in the stream.
C3_Witness ==
    \E t \in Threads :
        /\ pc[t] = "exited"
        /\ stream = "open"
        /\ \E gate_name \in GateNames :
              /\ Len(Recorded(t, gate_name, "start")) = 1
              /\ Len(Recorded(t, gate_name, "stop")) = 1
        /\ Len(ThreadOut(t)) > 1

\* C4: with the enable flag unset no gate and no block is allocated, no
\* timestamp is stored and nothing is written, whatever attach, start and
\* stop calls are made.
C4_DisabledAllocatesNothing ==
    ~vips__thread_profile =>
        /\ \A t \in Threads :
              /\ hist[t] = <<>>
              /\ private[t] # NULL => private[t].gates = NoGates
        /\ out = <<>>
        /\ stream = "none"

\* C5: a gate start or stop on a thread with no attached profile changes
\* nothing and does not fail, also before the first attach of the process.
C5_UnattachedGateIsNoOp ==
    [][\A t \in Threads : \A gate_name \in GateNames : \A dir \in Dirs :
          (private[t] = NULL /\ Gate(t, gate_name, dir))
              => UNCHANGED vars]_vars

\* The chain content, oldest first: the older blocks, then the filled
\* slots of this block
RECURSIVE Stored(_)
Stored(block) ==
    (IF block.prev # NULL THEN Stored(block.prev) ELSE <<>>)
    \o [j \in 1..block.i |-> block.time[j - 1]]

\* The registry of every attached thread holds exactly the gates that
\* thread touched, and their chains exactly the timestamps it recorded.
OwnTimestampsOnly ==
    \A t \in Threads :
        private[t] # NULL =>
            /\ DOMAIN private[t].gates = Touched(t)
            /\ \A gate_name \in DOMAIN private[t].gates :
                 \A dir \in Dirs :
                    Stored(Chain(private[t].gates[gate_name], dir))
                        = Recorded(t, gate_name, dir)

\* A step in which attached thread a records into its registry leaves the
\* other threads' values, the stream, the flag and the lock alone.
GateStepIsLocal ==
    \A a \in Threads :
        (private[a] # NULL /\ private'[a] # NULL /\ private'[a] # private[a])
        => /\ \A b \in Threads \ {a} : private'[b] = private[b]
           /\ UNCHANGED <<vips__thread_fp, stream, out,
                          vips__thread_profile, vips__global_lock>>

\* An attached, running thread can record whoever owns the lock.
GateNeverWaits ==
    \A a \in Threads : \A gate_name \in GateNames :
        (Running /\ pc[a] = "run" /\ private[a] # NULL /\ now < MaxClock)
        => /\ ENABLED vips__thread_gate_start(a, gate_name)
           /\ ENABLED vips__thread_gate_stop(a, gate_name)

\* C6: start and stop calls of attached thread A change A's registry
\* only, not B's gates, the stream, the flag or the lock; A never waits
\* for the lock; every thread's chains hold exactly the timestamps that
\* thread recorded.
C6_ThreadsAreIsolated ==
    /\ [](OwnTimestampsOnly /\ GateNeverWaits)
    /\ [][GateStepIsLocal]_vars

\* Two attached threads have recorded under the same gate name, into
\* chains that differ; one of them is dumping and owns the lock while the
\* other runs and can record again.
C6_Witness ==
    \E a \in Threads : \E b \in Threads \ {a} :
        /\ pc[a] = "run"
        /\ private[a] # NULL
        /\ private[b] # NULL
        /\ vips__global_lock = b
        /\ \E gate_name \in GateNames :
              /\ gate_name \in DOMAIN private[a].gates
              /\ gate_name \in DOMAIN private[b].gates
              /\ private[a].gates[gate_name] # private[b].gates[gate_name]

\* C7: however many threads race to attach first, the body of
\* vips__thread_profile_init runs once, and no thread creates its profile
\* before that run has returned.
C7_InitRunsOnce ==
    /\ stat.init <= 1
    /\ (once = "READY") <=> (stat.init = 1 /\ proc # "exit")
    /\ \A t \in Threads :
          (private[t] # NULL \/ pc[t] = "attach") => once = "READY"
    /\ Cardinality({t \in Threads : pc[t] = "init"}) <= 1

\* Two threads are attached: one ran the initialization, the other passed
\* g_once after it.
C7_Witness ==
    \E a \in Threads : \E b \in Threads \ {a} :
        /\ private[a] # NULL
        /\ private[b] # NULL
        /\ stat.init = 1

\* The thread that takes the step: the one whose position or pending
\* output changes
Actor(t) == pc'[t] # pc[t] \/ buf'[t] # buf[t]

\* C8: every access to the stream and to its open state, by the one-time
\* open, by teardown and by stop, is made by a thread that holds
\* vips__global_lock; the lock is held only during the one-time open and
\* during a teardown dump.
C8_StreamOnlyUnderLock ==
    /\ [][(vips__thread_fp' # vips__thread_fp \/ stream' # stream
             \/ out' # out)
          => \E t \in Threads : Actor(t) /\ vips__global_lock = t]_vars
    /\ [](vips__global_lock # UNLOCKED
             => pc[vips__global_lock] \in {"init", "save"})

\* C9: when the flag is set and the stream cannot be opened the process
\* ends in vips_error_exit with no thread attached; no thread is ever
\* attached with the flag set and no stream opened; vips_error_exit is
\* called in no other situation.
C9_OpenFailureIsFatal ==
    /\ (proc = "exit") <=> (stat.fatal = 1)
    /\ stat.fatal <= 1
    /\ proc = "exit" =>
          /\ vips__thread_profile
          /\ stat.open = 0
          /\ vips__thread_fp = NULL
          /\ \A t \in Threads : private[t] = NULL /\ hist[t] = <<>>
    /\ (vips__thread_profile /\ once = "READY") => stat.open = 1
    /\ (vips__thread_profile /\ \E t \in Threads : private[t] # NULL)
          => stat.open = 1

\* The open failed at the first attach and the process has ended.
C9_Witness ==
    /\ proc = "exit"
    /\ vips__thread_profile
    /\ \E t \in Threads : pc[t] = "init"

\* C10: when the flag is unset at the first attach no stream is ever
\* opened, and every teardown writes nothing, never takes the lock and
\* only releases the thread's registry.
C10_DisabledTeardownOnlyFrees ==
    ~vips__thread_profile =>
        /\ stat.open = 0
        /\ stream = "none"
        /\ vips__thread_fp = NULL
        /\ out = <<>>
        /\ vips__global_lock = UNLOCKED
        /\ \A t \in Threads :
              /\ pc[t] \notin {"save_lock", "save"}
              /\ pc[t] = "exited" => private[t] = NULL

\* With the flag unset a thread that attached and recorded has torn down.
C10_Witness ==
    /\ ~vips__thread_profile
    /\ once = "READY"
    /\ \E t \in Threads :
          pc[t] = "exited" /\ hist[t] # <<>> /\ private[t] = NULL

\* A step of the body of attach taken by t on an attached thread
AttachOnAttached(t) ==
    /\ private[t] # NULL
    /\ \/ pc[t] = "attach" /\ pc'[t] # "attach"
       \/ pc[t] = "run" /\ once = "READY" /\ proc' = "abort"

\* C11: a thread has at most one profile.  Attach on a thread that has a
\* profile trips the assertion (the process aborts) and leaves every
\* thread's profile as it was; a profile appears on a thread only where
\* there was none, and it then has an empty registry; a profile a thread
\* has changes only by that thread's own recording or goes at teardown.
C11_AtMostOneProfile ==
    [][\A t \in Threads :
          /\ AttachOnAttached(t) => (proc' = "abort" /\ private' = private)
          /\ (proc = "running" /\ proc' = "abort") =>
                 (private' = private /\ \E u \in Threads : AttachOnAttached(u))
          /\ (private[t] = NULL /\ private'[t] # NULL) =>
                 /\ private'[t].gates = NoGates
                 /\ private'[t].name \in ThreadNames
                 /\ \A u \in Threads \ {t} : private'[u] = private[u]
          /\ (private[t] # NULL /\ private'[t] # private[t]) =>
                 \/ private'[t] = NULL /\ pc[t] = "free_gates"
                 \/ /\ private'[t] # NULL
                    /\ Len(hist'[t]) = Len(hist[t]) + 1
                    /\ private'[t].name = private[t].name
                    /\ DOMAIN private[t].gates \subseteq DOMAIN private'[t].gates
      ]_vars

\* A thread that had attached and recorded called attach again: the
\* process has aborted and the thread still has the profile it recorded in.
C11_Witness ==
    /\ proc = "abort"
    /\ \E t \in Threads :
          /\ private[t] # NULL
          /\ private[t].gates # NoGates
          /\ pc[t] = "run"

\* C12: fclose is called on the stream at most once in a run, by
\* vips__thread_profile_stop only; the stream is closed only by that call;
\* once a stop has returned vips__thread_fp is NULL; a further stop, after
\* the first or concurrent with it, does not call fclose again.
C12_StreamClosedAtMostOnce ==
    /\ stat.fclose <= 1
    /\ (stream = "closed") <=> (stat.fclose = 1)
    /\ (stat.fclose >= 1 /\ \A t \in Threads : pc[t] # "stop_null")
          => vips__thread_fp = NULL

\* Every value vips_get_time has returned so far, to any thread
Readings ==
    UNION {{hist[t][j].time : j \in 1..Len(hist[t])} : t \in Threads}

\* C13: in either build a call of vips_get_time returns a value not less
\* than the value of any call before it.  (The values are gint64; a run of
\* the model stays far below 2^63 ticks, so the width plays no part.)
C13_ClockNeverGoesBack ==
    [][\A t \in Threads :
          Len(hist'[t]) > Len(hist[t]) =>
              LET time == hist'[t][Len(hist'[t])].time
              IN  \A earlier \in Readings : earlier <= time
      ]_vars

\* The timestamps vips_thread_gate_block_save prints for a chain, in order
SavedTimes(block) ==
    LET calls == vips_thread_gate_block_save(block)
    IN  TimesIn(calls, 1, Len(calls))

After(q, k) ==
    LET i == CHOOSE j \in Positions(q, k) : TRUE
        markers == {j \in 1..Len(q) :
                       j > i /\ q[j].k \in {"thread", "gate", "start", "stop"}}
        to == IF markers = {} THEN Len(q)
              ELSE (CHOOSE j \in markers : \A h \in markers : j <= h) - 1
    IN  SubSeq(q, i + 1, to)

\* One line of timestamps: any number of "%d " fields, then one "\n"
OneLine(q) ==
    /\ Len(q) >= 1
    /\ q[Len(q)].k = "nl"
    /\ \A j \in 1..(Len(q) - 1) : q[j].k = "time"

\* C15: in the section vips_thread_profile_save_gate writes for a gate,
\* whatever the number of timestamps in its chains, "start:" is followed by
\* exactly one line that holds all the start times and ends in a newline,
\* then comes "stop:", followed by exactly one such line with all the stop
\* times, and the section ends there.
C15_OneLinePerDirection ==
    \A t \in Threads :
        private[t] # NULL =>
            \A gate_name \in DOMAIN private[t].gates :
                LET gate == private[t].gates[gate_name]
                    calls == vips_thread_profile_save_gate(gate)
                IN  /\ Cardinality(Positions(calls, "start")) = 1
                    /\ Cardinality(Positions(calls, "stop")) = 1
                    /\ OneLine(After(calls, "start"))
                    /\ OneLine(After(calls, "stop"))
                    /\ Len(After(calls, "start")) =
                          Len(Recorded(t, gate_name, "start")) + 1
                    /\ Len(After(calls, "stop")) =
                          Len(Recorded(t, gate_name, "stop")) + 1

\* Where a thread in teardown stands, and what it still has
TeardownOrder ==
    \A t \in Threads :
        /\ pc[t] \in {"save_lock", "save", "free_gates"} => private[t] # NULL
        /\ pc[t] = "save" => vips__global_lock = t
        /\ pc[t] \in {"save_lock", "free_gates", "exited"} =>
              /\ vips__global_lock # t
              /\ buf[t] = <<>>
              /\ todo[t] = {}
        /\ pc[t] = "exited" => private[t] = NULL
        /\ (Running /\ pc[t] = "free_gates") => ENABLED FreeGates(t)

\* The steps of a teardown come in the order of vips_thread_profile_free
TeardownStep ==
    \A t \in Threads :
        /\ (private[t] # NULL /\ private'[t] = NULL) =>
              /\ pc[t] = "free_gates"
              /\ pc'[t] = "exited"
              /\ vips__global_lock # t
        /\ (pc[t] # "free_gates" /\ pc'[t] = "free_gates") =>
              \/ /\ pc[t] = "save"
                 /\ vips__global_lock = t
                 /\ vips__global_lock' = UNLOCKED
                 /\ buf[t] = <<>>
                 /\ todo[t] = {}
              \/ /\ pc[t] = "run"
                 /\ vips__thread_fp = NULL
        /\ (pc[t] = "run" /\ pc'[t] = "save_lock") => vips__thread_fp # NULL
        /\ (pc[t] = "run" /\ pc'[t] = "exited") => private[t] = NULL
        /\ pc[t] = "exited" => pc'[t] = "exited"

\* C16: in every teardown the dump, when the stream was found open, is
\* finished and vips__global_lock released before the registry is freed;
\* the registry is freed in every teardown, after a dump or without one,
\* and the thread is then left with no profile.
C16_DumpThenFree ==
    /\ []TeardownOrder
    /\ [][TeardownStep]_vars

\* Two threads that recorded have torn down, one with a dump and one
\* (after the stream was closed) without.
C16_Witness ==
    \E a \in Threads : \E b \in Threads \ {a} :
        /\ pc[a] = "exited" /\ private[a] = NULL
        /\ pc[b] = "exited" /\ private[b] = NULL
        /\ hist[a] # <<>> /\ hist[b] # <<>>
        /\ ThreadOut(a) # <<>>
        /\ ThreadOut(b) = <<>>
        /\ ~stat.closedwrite

\* Thread t is inside vips_thread_profile_free
InTeardown(t) == pc[t] \in {"save_lock", "save", "free_gates"}

\* C17: with every thread scheduled, a thread whose teardown has begun
\* takes the lock if it dumps, finishes the dump, releases the lock, frees
\* its registry and is torn down; a thread that is torn down does not own
\* the lock.  (A run that the assertion of attach has ended is over and
\* leaves nothing waiting.)
C17_TeardownTerminates ==
    /\ \A t \in Threads :
          InTeardown(t) ~> (pc[t] = "exited" \/ proc = "abort")
    /\ [](\A t \in Threads : pc[t] = "exited" => vips__global_lock # t)

\* The same, for the runs in which the process takes no fault
C17_TerminatesUnlessFault ==
    /\ \A t \in Threads :
          InTeardown(t) ~> (pc[t] = "exited" \/ ~Running)
    /\ [](\A t \in Threads : pc[t] = "exited" => vips__global_lock # t)

RECURSIVE ChainBlocks(_)
\* The blocks of a chain, the current one first
ChainBlocks(block) ==
    <<block>> \o (IF block.prev # NULL THEN ChainBlocks(block.prev) ELSE <<>>)

\* Every block's fill count is within 0..VIPS_GATE_SIZE, and a block that
\* is no longer current is full
FillCountInRange ==
    \A t \in Threads :
        private[t] # NULL =>
            \A gate_name \in DOMAIN private[t].gates : \A dir \in Dirs :
                LET q == ChainBlocks(Chain(private[t].gates[gate_name], dir))
                IN  \A j \in 1..Len(q) :
                        /\ q[j].i \in 0..VIPS_GATE_SIZE
                        /\ DOMAIN q[j].time = 0..(VIPS_GATE_SIZE - 1)
                        /\ j > 1 => q[j].i = VIPS_GATE_SIZE

\* The chain as the gate call found it: that of the gate, or the one empty
\* block of a gate the call has just created
ChainBefore(t, gate_name, dir) ==
    IF gate_name \in DOMAIN private[t].gates
    THEN Chain(private[t].gates[gate_name], dir)
    ELSE VipsThreadGateBlock_new0

\* A step that changes a chain stores one timestamp: below the capacity
\* into the current block at its fill count, at the capacity into slot 0 of
\* a new block whose prev is the block that was current.
WriteBelowCapacity ==
    \A t \in Threads :
        (private[t] # NULL /\ private'[t] # NULL) =>
            \A gate_name \in DOMAIN private'[t].gates : \A dir \in Dirs :
                LET old == ChainBefore(t, gate_name, dir)
                    new == Chain(private'[t].gates[gate_name], dir)
                    time == hist'[t][Len(hist'[t])].time
                IN  new # old =>
                        /\ Len(hist'[t]) = Len(hist[t]) + 1
                        /\ IF old.i < VIPS_GATE_SIZE
                           THEN /\ new.prev = old.prev
                                /\ new.i = old.i + 1
                                /\ new.i - 1 < VIPS_GATE_SIZE
                                /\ new.time[old.i] = time
                                /\ \A k \in 0..(VIPS_GATE_SIZE - 1) :
                                      k # old.i => new.time[k] = old.time[k]
                           ELSE /\ new.prev = old
                                /\ new.i = 1
                                /\ new.time[0] = time

\* C18: the fill count i of every block of every chain is within
\* 0..VIPS_GATE_SIZE; a timestamp is stored into a block only while its i is
\* below VIPS_GATE_SIZE; when the current block is full the store goes to a
\* new empty block, made current with prev set to the old one before the
\* store; nothing is stored at index VIPS_GATE_SIZE or beyond.
C18_FillCountBounded ==
    /\ []FillCountInRange
    /\ [][WriteBelowCapacity]_vars

\* A chain whose first block was filled and which has gone on into a
\* second block
C18_Witness ==
    \E t \in Threads :
        /\ private[t] # NULL
        /\ \E gate_name \in DOMAIN private[t].gates : \E dir \in Dirs :
              LET block == Chain(private[t].gates[gate_name], dir)
              IN  /\ block.prev # NULL
                  /\ block.prev.i = VIPS_GATE_SIZE
                  /\ block.i >= 1

Other(dir) == IF dir = "start" THEN "stop" ELSE "start"

\* The registry has one gate for each name the thread has used, under
\* that name
OneGatePerName ==
    \A t \in Threads :
        private[t] # NULL =>
            /\ DOMAIN private[t].gates = Touched(t)
            /\ \A gate_name \in DOMAIN private[t].gates :
                  private[t].gates[gate_name].name = gate_name

\* What one start or stop call of an attached thread does to its registry
GateCallEffect ==
    \A t \in Threads :
        (private[t] # NULL /\ Len(hist'[t]) > Len(hist[t])) =>
            LET call == hist'[t][Len(hist'[t])]
                old == private[t].gates
                new == private'[t].gates
            IN  /\ Len(hist'[t]) = Len(hist[t]) + 1
                /\ DOMAIN new = DOMAIN old \cup {call.gate}
                /\ \A h \in DOMAIN old : h # call.gate => new[h] = old[h]
                /\ new[call.gate].name = call.gate
                /\ IF call.gate \in DOMAIN old
                   THEN /\ Stored(Chain(new[call.gate], call.dir)) =
                              Append(Stored(Chain(old[call.gate], call.dir)),
                                     call.time)
                        /\ Chain(new[call.gate], Other(call.dir)) =
                              Chain(old[call.gate], Other(call.dir))
                   ELSE /\ Stored(Chain(new[call.gate], call.dir)) =
                              <<call.time>>
                        /\ Blocks(Chain(new[call.gate], call.dir)) = 1
                        /\ Chain(new[call.gate], Other(call.dir)) =
                              VipsThreadGateBlock_new0

\* C19: the registry of an attached thread holds exactly one gate for each
\* distinct name its start and stop calls have used.  The first call for a
\* name makes a gate with two chains of one empty block each and stores one
\* timestamp in the chain of the direction called, none in the other; a
\* later call for the name finds that gate and adds exactly one timestamp
\* to the chain of its direction, leaving the other chain and the other
\* gates as they were.
C19_OneGatePerName ==
    /\ []OneGatePerName
    /\ [][GateCallEffect]_vars

\* A thread has called start and then stop, or stop and then start, for
\* the same name and has one gate with a timestamp in each chain.
C19_Witness ==
    \E t \in Threads :
        /\ private[t] # NULL
        /\ pc[t] = "run"
        /\ \E gate_name \in GateNames :
              /\ DOMAIN private[t].gates = {gate_name}
              /\ Len(Recorded(t, gate_name, "start")) = 1
              /\ Len(Recorded(t, gate_name, "stop")) = 1

\* C20: however teardowns and vips__thread_profile_stop interleave, no
\* fprintf is made on the stream once fclose has been called on it: a
\* teardown that begins after the stop finds no stream and prints nothing,
\* and one that found the stream before taking the lock does not go on to
\* print after a stop has closed it.
C20_NoWriteAfterClose ==
    ~stat.closedwrite

====
